---- MODULE Spec2Model ----
(***************************************************************************)
(* State-machine model of src/main.py: the FastAPI backend with the three  *)
(* handlers tiktok_metadata (POST /api/tiktok/metadata), resolve_generic   *)
(* (POST /api/resolve) and test_database (GET /test).                      *)
(*                                                                         *)
(* Every request runs in a slot i.  A slot holds the locals of the handler *)
(* that serves it (resp, info, db), the observable effects (calls, parsed) and *)
(* the response (outcome).  What the outside world answers (the upstream   *)
(* resolver, yt-dlp, the database module, the environment variables) is    *)
(* chosen nondeterministically at the step that asks for it.               *)
(*                                                                         *)
(* Python values: a dict is a record whose missing keys hold ABSENT, JSON  *)
(* null / None is NONE, lists are sequences.  An exception that no except  *)
(* clause of the handler catches ends the request as kind "crash": the     *)
(* framework answers 500 with a plain-text body, i.e. without a detail.    *)
(***************************************************************************)
EXTENDS Integers, Sequences, FiniteSets, TLC

VARIABLES pc, endpoint, resp, info, db, calls, parsed, outcome

vars == <<pc, endpoint, resp, info, db, calls, parsed, outcome>>

(***************************************************************************)
(* Bounds of the model.                                                    *)
(***************************************************************************)
\* Longest requested_formats / formats list yt-dlp returns in the model.
MaxFormats == 2
\* Number of collections the database can hold beyond the 10 that are shown.
MaxExtraCollections == 2
\* Number of request slots that run concurrently in SpecConc.
NumReq == 2

(***************************************************************************)
(* Python values.                                                          *)
(***************************************************************************)
\* dict key missing
ABSENT == "<absent>"
\* None / JSON null
NONE == "<None>"

\* dict.get(key): a missing key reads as None
Get(v) == IF v = ABSENT THEN NONE ELSE v

\* truth value of a str-or-None value
Truthy(v) == v \notin {ABSENT, NONE, ""}

\* Python's  a or b  on dict.get results
Or(a, b) == IF Truthy(a) THEN Get(a) ELSE Get(b)

(***************************************************************************)
(* Responses.                                                              *)
(***************************************************************************)
\* The keys of the normalized JSON body; "source" is missing for TikTok.
NoBody ==
  [title |-> ABSENT, cover |-> ABSENT, download_url |-> ABSENT,
   duration |-> ABSENT, author |-> ABSENT, source |-> ABSENT]

NoOutcome == [kind |-> "none", status |-> 0, detail |-> NONE, exc |-> NONE, body |-> NoBody]

\* raise HTTPException(status_code=status, detail=detail)
HTTPException(status, detail) ==
  [kind |-> "http_error", status |-> status, detail |-> detail, exc |-> NONE, body |-> NoBody]

\* An exception no except clause catches: 500 without a {detail} body.
Crash(exc) ==
  [kind |-> "crash", status |-> 500, detail |-> NONE, exc |-> exc, body |-> NoBody]

\* return {...}
Ok(body) == [kind |-> "ok", status |-> 200, detail |-> NONE, exc |-> NONE, body |-> body]

(***************************************************************************)
(* POST /api/tiktok/metadata: what the upstream resolver can answer.       *)
(***************************************************************************)
NoMusic == [shape |-> "absent", cover |-> ABSENT]

\* d.get("music_info"): key missing, null, {} or an object with a cover
MusicInfos ==
  {NoMusic, [shape |-> "null", cover |-> ABSENT], [shape |-> "obj", cover |-> ABSENT],
   [shape |-> "obj", cover |-> "https://cdn/music.jpg"]}

NoData ==
  [shape |-> "absent", hdplay |-> ABSENT, play |-> ABSENT, title |-> ABSENT,
   cover |-> ABSENT, origin_cover |-> ABSENT, music_info |-> NoMusic,
   duration |-> ABSENT, author |-> ABSENT]

\* The "data" member of the envelope when it is a non-empty JSON object.
DataObjects ==
  [shape : {"obj"},
   hdplay : {ABSENT, "", "https://cdn/hd.mp4"},
   play : {ABSENT, "https://cdn/play.mp4"},
   title : {ABSENT, "clip"},
   cover : {ABSENT, "https://cdn/cover.jpg"},
   origin_cover : {ABSENT, "https://cdn/origin.jpg"},
   music_info : MusicInfos,
   duration : {ABSENT, "15"},
   author : {"someone"}]

\* The "data" member: missing, null, {} (falsy), a non-object value, or an object.
DataValues ==
  {[NoData EXCEPT !.shape = s] : s \in {"absent", "null", "emptyobj", "str"}}
    \cup DataObjects

NoJson == [shape |-> "notjson", code |-> ABSENT, msg |-> ABSENT, data |-> NoData]

\* resp.json(): not JSON at all, null, {}, [], a non-empty list, or an object.
\* code is the JSON number 0, the JSON number -1, or missing.
JsonBodies ==
  {[NoJson EXCEPT !.shape = s] : s \in {"notjson", "null", "emptyobj", "emptylist", "list"}}
    \cup [shape : {"obj"}, code : {ABSENT, "0", "-1"},
          msg : {ABSENT, "Url parsing is failed!"}, data : DataValues]

\* Texts of the requests.RequestException the POST can raise (timeout included).
TransportErrors == {"Read timed out. (read timeout=20)", "Connection refused"}

NoResp == [transport |-> "none", error |-> NONE, status_code |-> 0, body |-> NoJson]

\* Everything requests.post can do: raise, or return a response.
TikTokReplies ==
  {[NoResp EXCEPT !.transport = "error", !.error = e] : e \in TransportErrors}
    \cup [transport : {"ok"}, error : {NONE}, status_code : {200}, body : JsonBodies]
    \cup [transport : {"ok"}, error : {NONE}, status_code : {403, 500},
          body : {NoJson, [NoJson EXCEPT !.shape = "emptyobj"]}]

(***************************************************************************)
(* tiktok_metadata, lines 57-79, as a function of the response.            *)
(***************************************************************************)
\* not data  (line 61), on the parsed JSON value
JsonFalsy(body) == body.shape \in {"null", "emptyobj", "emptylist"}

\* Only a dict has .get: None.get / [].get raise AttributeError.
HasGet(shape) == shape \in {"obj", "emptyobj"}

\* not data.get("data")  (line 61)
DataFalsy(data) == data.shape \in {"absent", "null", "emptyobj"}

\* d.get("hdplay") or d.get("play")  (line 66)
DownloadUrl(d) == Or(d.hdplay, d.play)

\* d.get("title") or "TikTok Video"  (line 70)
TikTokTitle(d) == IF Truthy(d.title) THEN d.title ELSE "TikTok Video"

\* d.get("music_info", {}).get("cover") raises when music_info is null.
CoverRaises(d) ==
  /\ ~Truthy(d.cover)
  /\ ~Truthy(d.origin_cover)
  /\ d.music_info.shape = "null"

\* d.get("cover") or d.get("origin_cover") or d.get("music_info", {}).get("cover")
TikTokCover(d) == Or(d.cover, Or(d.origin_cover, d.music_info.cover))

\* Lines 64-79: data["data"] is truthy here.
TikTokNormalize(d) ==
  IF d.shape # "obj" THEN Crash("AttributeError")
  ELSE IF ~Truthy(DownloadUrl(d)) THEN HTTPException(404, "Download URL not found")
  ELSE IF CoverRaises(d) THEN Crash("AttributeError")
  ELSE Ok([NoBody EXCEPT !.title = TikTokTitle(d), !.cover = TikTokCover(d),
                         !.download_url = DownloadUrl(d),
                         !.duration = Get(d.duration), !.author = Get(d.author)])

\* data.get("msg", "Failed to resolve video")  (line 62)
UpstreamMsg(body) == IF body.msg = ABSENT THEN "Failed to resolve video" ELSE body.msg

\* Lines 60-62: the validation of the parsed envelope.
TikTokValidate(body) ==
  IF body.shape = "notjson" THEN Crash("JSONDecodeError")
  ELSE IF JsonFalsy(body) THEN
    IF HasGet(body.shape) THEN HTTPException(400, UpstreamMsg(body))
    ELSE Crash("AttributeError")
  ELSE IF ~HasGet(body.shape) THEN Crash("AttributeError")
  ELSE IF body.code # "0" \/ DataFalsy(body.data) THEN HTTPException(400, UpstreamMsg(body))
  ELSE TikTokNormalize(body.data)

\* Mutant of StatusRejected: only server errors are rejected.
StatusRejectedServerOnly(r) == r.status_code >= 500

\* resp.status_code != 200  (line 57)
StatusRejected(r) == r.status_code # 200

\* Lines 57-79 for a response that requests.post returned.
TikTokHandleResponse(r) ==
  IF StatusRejected(r) THEN HTTPException(r.status_code, "Resolver error")
  ELSE TikTokValidate(r.body)

\* Lines 54-55: the except clause of the POST.
TikTokNetworkError(r) == HTTPException(502, "Resolver network error: " \o r.error)

(***************************************************************************)
(* POST /api/resolve: what yt-dlp's extract_info can return.               *)
(***************************************************************************)
\* URL of the entry at position k of a list: entries are told apart by position.
UrlAt(list, k) == "https://cdn/" \o list \o "/" \o ToString(k)

\* requested_formats lists: every entry has a vcodec and may lack a url.
RequestedFormatLists ==
  UNION {{[k \in 1..n |->
            [vcodec |-> s[k].vcodec,
             url |-> IF s[k].has_url THEN UrlAt("requested", k) ELSE ABSENT]]
          : s \in [1..n -> [vcodec : {"none", "avc1"}, has_url : BOOLEAN]]}
         : n \in 0..MaxFormats}

\* formats lists: every entry has an ext and may lack a url.
FormatLists ==
  UNION {{[k \in 1..n |->
            [ext |-> s[k].ext,
             url |-> IF s[k].has_url THEN UrlAt("formats", k) ELSE ABSENT]]
          : s \in [1..n -> [ext : {"mp4", "webm"}, has_url : BOOLEAN]]}
         : n \in 0..MaxFormats}

\* The metadata keys of a descriptor.  has_thumbnails tells whether the key
\* "thumbnails" exists; thumbnails is its list.
MetaBase ==
  [title |-> ABSENT, thumbnail |-> ABSENT, has_thumbnails |-> FALSE, thumbnails |-> <<>>,
   uploader |-> ABSENT, channel |-> ABSENT, author |-> ABSENT, duration |-> ABSENT,
   extractor_key |-> "Youtube"]

Metas ==
  {MetaBase,
   [MetaBase EXCEPT !.title = "a video", !.thumbnail = "https://img/t.jpg",
                    !.uploader = "up", !.duration = "212"],
   [MetaBase EXCEPT !.thumbnail = "https://img/t.jpg", !.has_thumbnails = TRUE,
                    !.channel = "chan"],
   [MetaBase EXCEPT !.has_thumbnails = TRUE, !.author = "auth"],
   [MetaBase EXCEPT !.has_thumbnails = TRUE,
                    !.thumbnails = <<[url |-> "https://img/0.jpg"]>>, !.channel = "chan"]}

\* A media descriptor (an info dict that is not a playlist container).
Descriptors ==
  {[meta |-> m, requested_formats |-> rf, url |-> u, formats |-> fs]
     : m \in Metas, rf \in RequestedFormatLists,
       u \in {ABSENT, "https://cdn/direct"}, fs \in FormatLists}

NoDescriptor ==
  [meta |-> MetaBase, requested_formats |-> <<>>, url |-> ABSENT, formats |-> <<>>]

NoInfo == [result |-> "none", error |-> NONE, type |-> "none", entries |-> "none", d |-> NoDescriptor]

\* Texts of the exceptions extract_info can raise.
ExtractErrors == {"ERROR: Unsupported URL", "ERROR: Private video"}

\* Everything extract_info can do.  result: "download_error" (DownloadError),
\* "exception" (any other Exception), "none" (it returned None) or "info".
\* For an info dict, type is its _type and entries tells what info["entries"]
\* holds: "absent", "empty" ([]), "null_first" ([None, ...]) or "first" (d is
\* entries[0]); with no usable entries d is the dict itself.
ExtractResults ==
  {[NoInfo EXCEPT !.result = r, !.error = e]
     : r \in {"download_error", "exception"}, e \in ExtractErrors}
    \cup {[NoInfo EXCEPT !.result = "returned_none"]}
    \cup {[NoInfo EXCEPT !.result = "info", !.type = "playlist", !.entries = "null_first"]}
    \cup {[NoInfo EXCEPT !.result = "info", !.type = "playlist", !.entries = "empty", !.d = d]
            : d \in {x \in Descriptors : x.requested_formats = <<>> /\ x.formats = <<>>}}
    \cup {[NoInfo EXCEPT !.result = "info", !.type = t[1], !.entries = t[2], !.d = d]
            : t \in {<<"video", "absent">>, <<"playlist", "first">>}, d \in Descriptors}

(***************************************************************************)
(* resolve_generic, lines 111-159, as a function of the extracted info.    *)
(***************************************************************************)
\* Lines 112-113: is info replaced by info["entries"][0]?
PicksFirstEntry(x) == x.type = "playlist" /\ x.entries \in {"null_first", "first"}

\* info.get("title") or "Video"  (line 115)
ResolveTitle(m) == IF Truthy(m.title) THEN m.title ELSE "Video"

\* info.get("thumbnails", [{}])  (line 116)
ThumbnailList(m) == IF m.has_thumbnails THEN m.thumbnails ELSE <<[url |-> ABSENT]>>

\* info.get("thumbnails", [{}])[0] raises IndexError on an empty list.
ThumbnailRaises(m) == ~Truthy(m.thumbnail) /\ ThumbnailList(m) = <<>>

\* info.get("thumbnail") or info.get("thumbnails", [{}])[0].get("url")
ResolveCover(m) ==
  IF Truthy(m.thumbnail) THEN m.thumbnail ELSE Get(ThumbnailList(m)[1].url)

\* info.get("uploader") or info.get("channel") or info.get("author")  (line 117)
ResolveAuthor(m) == Or(m.uploader, Or(m.channel, m.author))

\* The for loop of lines 126-129, from position k on.
RECURSIVE ScanRequested(_, _)
ScanRequested(rf, k) ==
  IF k > Len(rf) THEN NONE
  ELSE IF rf[k].vcodec # "none" /\ Truthy(rf[k].url) THEN rf[k].url
  ELSE ScanRequested(rf, k + 1)

\* Lines 123-131: download_url after the requested_formats step.
FromRequested(rf) ==
  IF rf = <<>> THEN NONE
  ELSE IF Truthy(ScanRequested(rf, 1)) THEN ScanRequested(rf, 1)
  ELSE IF Truthy(rf[1].url) THEN rf[1].url
  ELSE NONE

\* The for loop of lines 141-143, from position k on: 0 stands for best = None.
RECURSIVE ScanFormats(_, _, _)
ScanFormats(formats, k, best) ==
  IF k > Len(formats) THEN best
  ELSE ScanFormats(formats, k + 1,
                   IF Truthy(formats[k].url) /\ formats[k].ext = "mp4" THEN k ELSE best)

\* Lines 140-145: the index of best, 0 for None.
BestFormat(formats) ==
  IF ScanFormats(formats, 1, 0) = 0 /\ formats # <<>> THEN Len(formats)
  ELSE ScanFormats(formats, 1, 0)

\* Lines 135-147: the fallback to the single-format url or the formats list.
FromFormats(d) ==
  IF Truthy(d.url) THEN d.url
  ELSE IF BestFormat(d.formats) # 0 THEN Get(d.formats[BestFormat(d.formats)].url)
  ELSE NONE

\* Lines 121-147: the download url, NONE when no step yields one.
SelectUrl(d) ==
  IF Truthy(FromRequested(d.requested_formats)) THEN FromRequested(d.requested_formats)
  ELSE FromFormats(d)

\* Lines 115-159 on the descriptor that info ends up naming.
ResolveNormalize(d) ==
  IF ThumbnailRaises(d.meta) THEN Crash("IndexError")
  ELSE IF ~Truthy(SelectUrl(d)) THEN
    HTTPException(404, "Could not determine a direct media URL")
  ELSE Ok([title |-> ResolveTitle(d.meta), cover |-> ResolveCover(d.meta),
           download_url |-> SelectUrl(d), duration |-> Get(d.meta.duration),
           author |-> ResolveAuthor(d.meta), source |-> Get(d.meta.extractor_key)])

\* Lines 111-159 for a value extract_info returned.
ResolveHandleInfo(x) ==
  IF x.result = "returned_none" THEN Crash("AttributeError")
  ELSE IF PicksFirstEntry(x) /\ x.entries = "null_first" THEN Crash("AttributeError")
  ELSE ResolveNormalize(x.d)

\* Lines 106-109: the except clauses around extract_info.
ExtractFailure(x) ==
  IF x.result = "download_error" THEN HTTPException(400, "Failed to extract: " \o x.error)
  ELSE HTTPException(500, "Unexpected error: " \o x.error)

\* Lines 90-91: import yt_dlp failed.
ImportFailure(e) == HTTPException(500, "yt-dlp not available: " \o e)

(***************************************************************************)
(* GET /test: the optional database module and the environment.            *)
(***************************************************************************)
\* collections[:10]  (line 187)
CollectionsShown == 10
\* str(e)[:50]  (lines 190, 197)
ErrorTextLimit == 50

\* s[:n]
Prefix(s, n) == SubSeq(s, 1, IF Len(s) < n THEN Len(s) ELSE n)

\* An exception text of n characters.
ErrorText(n) == [k \in 1..n |-> "e"]

ErrorTexts == {ErrorText(n) : n \in {7, ErrorTextLimit, ErrorTextLimit + 8}}

\* The collection names of a database that holds n collections.
CollectionNames(n) == [k \in 1..n |-> "coll" \o ToString(k)]

NoDb ==
  [import |-> "import_error", handle |-> FALSE, name |-> "absent", list |-> "raises",
   collections |-> <<>>, error |-> <<>>, env_url |-> FALSE, env_name |-> FALSE]

\* import: what "from database import db" does ("ok", "import_error", or
\* "exception" for any other Exception); handle: db is not None; name: db has no
\* attribute name ("absent"), has one ("value"), or reading it raises
\* ("raises"); list: list_collection_names() returns ("ok") or raises.
DbImports ==
  {NoDb}
    \cup {[NoDb EXCEPT !.import = "exception", !.error = e] : e \in ErrorTexts}
    \cup {[NoDb EXCEPT !.import = "ok"]}
    \cup {[NoDb EXCEPT !.import = "ok", !.handle = TRUE, !.name = "raises", !.error = e]
            : e \in ErrorTexts}
    \cup {[NoDb EXCEPT !.import = "ok", !.handle = TRUE, !.name = nm, !.error = e]
            : nm \in {"absent", "value"}, e \in ErrorTexts}
    \cup {[NoDb EXCEPT !.import = "ok", !.handle = TRUE, !.name = nm, !.list = "ok",
                       !.collections = CollectionNames(n)]
            : nm \in {"absent", "value"}, n \in 0..(CollectionsShown + MaxExtraCollections)}

\* The database module together with DATABASE_URL and DATABASE_NAME.
DbStates ==
  {[x EXCEPT !.env_url = u, !.env_name = n] : x \in DbImports, u \in BOOLEAN, n \in BOOLEAN}

\* A status string: a fixed text followed by (a prefix of) an exception text.
Status(text, err) == [text |-> text, err |-> err]

\* Lines 165-172: the response before anything is probed.
InitialDiag ==
  [backend |-> "Running", database |-> Status("Not Available", <<>>),
   database_url |-> NONE, database_name |-> NONE,
   connection_status |-> "Not Connected", collections |-> <<>>]

\* Mutant of ListCollections: the list is returned without the [:10] slice.
ListCollectionsUnsliced(x, r) ==
  IF x.list = "ok"
  THEN [r EXCEPT !.collections = x.collections,
                 !.database = Status("Connected & Working", <<>>)]
  ELSE [r EXCEPT !.database =
          Status("Connected but Error: ", Prefix(x.error, ErrorTextLimit))]

\* Lines 185-190: the enumeration of the collections.
ListCollections(x, r) ==
  IF x.list = "ok"
  THEN [r EXCEPT !.collections = Prefix(x.collections, CollectionsShown),
                 !.database = Status("Connected & Working", <<>>)]
  ELSE [r EXCEPT !.database =
          Status("Connected but Error: ", Prefix(x.error, ErrorTextLimit))]

\* Lines 174-197: the try block with its except clauses.
ProbeDatabase(x, r) ==
  IF x.import = "import_error"
  THEN [r EXCEPT !.database =
          Status("Database module not found (run enable-database first)", <<>>)]
  ELSE IF x.import = "exception"
  THEN [r EXCEPT !.database = Status("Error: ", Prefix(x.error, ErrorTextLimit))]
  ELSE IF ~x.handle
  THEN [r EXCEPT !.database = Status("Available but not initialized", <<>>)]
  ELSE IF x.name = "raises"
  THEN [r EXCEPT !.database = Status("Error: ", Prefix(x.error, ErrorTextLimit)),
                 !.database_url = "Configured"]
  ELSE ListCollections(x,
         [r EXCEPT !.database = Status("Available", <<>>),
                   !.database_url = "Configured",
                   !.database_name = IF x.name = "value" THEN "db" ELSE "Connected",
                   !.connection_status = "Connected"])

\* Lines 200-202: the environment variables overwrite both fields.
CheckEnvironment(x, r) ==
  [r EXCEPT !.database_url = IF x.env_url THEN "Set" ELSE "Not Set",
            !.database_name = IF x.env_name THEN "Set" ELSE "Not Set"]

\* test_database as a function of the database module and the environment.
TestResponse(x) == Ok(CheckEnvironment(x, ProbeDatabase(x, InitialDiag)))

(***************************************************************************)
(* The handlers as steps of a request slot.                                *)
(***************************************************************************)
\* The routes of the claims' handlers.
Endpoints == {"tiktok", "resolve", "test"}

\* Mutant of Local: the variable is a module-level global that slot 1 owns.
SharedLocal(f, i) == f[1]

\* A local variable of the invocation that serves slot i.
Local(f, i) == f[i]

\* Mutant of AfterPost: a failed POST is tried again.
AfterPostRetry(r) == IF r.transport = "error" THEN "start" ELSE "posted"

\* Where tiktok_metadata continues after requests.post: the except clause
\* raises, so a failed call ends the request.
AfterPost(r) == IF r.transport = "error" THEN "done" ELSE "posted"

\* Where resolve_generic continues after extract_info.
AfterExtract(x) == IF x.result \in {"download_error", "exception"} THEN "done" ELSE "extracted"

Set(f, i, v) == [f EXCEPT ![i] = v]

\* The framework routes a request to its handler.
Dispatch(i, E) ==
  /\ pc[i] = "idle"
  /\ \E e \in E : endpoint' = Set(endpoint, i, e)
  /\ pc' = Set(pc, i, "start")
  /\ UNCHANGED <<resp, info, db, calls, parsed, outcome>>

\* Lines 43-55: the single POST to the resolver and its except clause.
TikTokPost(i, R) ==
  /\ pc[i] = "start"
  /\ endpoint[i] = "tiktok"
  /\ \E r \in R :
       /\ resp' = Set(resp, i, r)
       /\ pc' = Set(pc, i, AfterPost(r))
       /\ outcome' = IF r.transport = "error"
                     THEN Set(outcome, i, TikTokNetworkError(r))
                     ELSE outcome
  /\ calls' = Set(calls, i, calls[i] + 1)
  /\ UNCHANGED <<endpoint, info, db, parsed>>

\* Lines 57-79: status check, resp.json(), validation, normalization.
TikTokHandle(i) ==
  /\ pc[i] = "posted"
  /\ endpoint[i] = "tiktok"
  /\ parsed' = Set(parsed, i, ~StatusRejected(Local(resp, i)))
  /\ outcome' = Set(outcome, i, TikTokHandleResponse(Local(resp, i)))
  /\ pc' = Set(pc, i, "done")
  /\ UNCHANGED <<endpoint, resp, info, db, calls>>

\* Lines 88-91: import yt_dlp.
ResolveImport(i) ==
  /\ pc[i] = "start"
  /\ endpoint[i] = "resolve"
  /\ \E available \in BOOLEAN :
       IF available
       THEN /\ pc' = Set(pc, i, "imported")
            /\ UNCHANGED outcome
       ELSE /\ pc' = Set(pc, i, "done")
            /\ outcome' = Set(outcome, i, ImportFailure("No module named 'yt_dlp'"))
  /\ UNCHANGED <<endpoint, resp, info, db, calls, parsed>>

\* Lines 103-109: the single extract_info call and its except clauses.
ResolveExtract(i, X) ==
  /\ pc[i] = "imported"
  /\ endpoint[i] = "resolve"
  /\ \E x \in X :
       /\ info' = Set(info, i, x)
       /\ pc' = Set(pc, i, AfterExtract(x))
       /\ outcome' = IF x.result \in {"download_error", "exception"}
                     THEN Set(outcome, i, ExtractFailure(x))
                     ELSE outcome
  /\ calls' = Set(calls, i, calls[i] + 1)
  /\ UNCHANGED <<endpoint, resp, db, parsed>>

\* Lines 111-159: playlist unwrapping, normalization, url selection.
ResolveSelect(i) ==
  /\ pc[i] = "extracted"
  /\ endpoint[i] = "resolve"
  /\ outcome' = Set(outcome, i, ResolveHandleInfo(Local(info, i)))
  /\ pc' = Set(pc, i, "done")
  /\ UNCHANGED <<endpoint, resp, info, db, calls, parsed>>

\* Lines 162-204: the whole diagnostics handler.
TestDatabase(i, D) ==
  /\ pc[i] = "start"
  /\ endpoint[i] = "test"
  /\ \E x \in D :
       /\ db' = Set(db, i, x)
       /\ outcome' = Set(outcome, i, TestResponse(x))
  /\ pc' = Set(pc, i, "done")
  /\ UNCHANGED <<endpoint, resp, info, calls, parsed>>

\* The response is sent; the slot takes the next request with fresh locals.
Finish(i) ==
  /\ pc[i] = "done"
  /\ pc' = Set(pc, i, "idle")
  /\ endpoint' = Set(endpoint, i, "none")
  /\ resp' = Set(resp, i, NoResp)
  /\ info' = Set(info, i, NoInfo)
  /\ db' = Set(db, i, NoDb)
  /\ calls' = Set(calls, i, 0)
  /\ parsed' = Set(parsed, i, FALSE)
  /\ outcome' = Set(outcome, i, NoOutcome)

InitSlots(S) ==
  /\ pc = [i \in S |-> "idle"]
  /\ endpoint = [i \in S |-> "none"]
  /\ resp = [i \in S |-> NoResp]
  /\ info = [i \in S |-> NoInfo]
  /\ db = [i \in S |-> NoDb]
  /\ calls = [i \in S |-> 0]
  /\ parsed = [i \in S |-> FALSE]
  /\ outcome = [i \in S |-> NoOutcome]

(***************************************************************************)
(* Spec: one request at a time, every answer of the outside world.         *)
(***************************************************************************)
Init == InitSlots({1})

Next ==
  \/ Dispatch(1, Endpoints)
  \/ TikTokPost(1, TikTokReplies)
  \/ TikTokHandle(1)
  \/ ResolveImport(1)
  \/ ResolveExtract(1, ExtractResults)
  \/ ResolveSelect(1)
  \/ TestDatabase(1, DbStates)
  \/ Finish(1)

Spec == Init /\ [][Next]_vars

(***************************************************************************)
(* SpecConc: NumReq requests to the two resolution handlers, interleaved   *)
(* step by step as a concurrent dispatcher may run them.                   *)
(***************************************************************************)
Slots == 1..NumReq

\* Representative answers of the resolver: one per branch of tiktok_metadata.
ConcTikTokReplies ==
  {r \in TikTokReplies :
     /\ r.error # "Connection refused"
     /\ r.status_code # 403
     /\ r.body.shape \in {"notjson", "null", "obj"}
     /\ r.body.msg = ABSENT
     /\ r.body.code \in {ABSENT, "0"}
     /\ r.body.data.shape \in {"absent", "obj"}
     /\ r.body.code = ABSENT => r.body.data.shape = "absent"
     /\ r.body.data.shape = "obj" =>
          /\ r.body.data.hdplay # ""
          /\ r.body.data.play = ABSENT
          /\ r.body.data.title = ABSENT
          /\ r.body.data.cover = ABSENT
          /\ r.body.data.origin_cover = ABSENT
          /\ r.body.data.duration = ABSENT
          /\ r.body.data.music_info.shape \in {"absent", "null"}}

\* Representative results of extract_info: one per branch of resolve_generic.
ConcExtractResults ==
  {x \in ExtractResults :
     /\ x.error # "ERROR: Private video"
     /\ x.type # "playlist"
     /\ x.d.meta \in {MetaBase, [MetaBase EXCEPT !.has_thumbnails = TRUE, !.author = "auth"]}
     /\ x.d.url = ABSENT
     /\ x.d.formats = <<>>
     /\ Len(x.d.requested_formats) <= 1
     /\ \A k \in DOMAIN x.d.requested_formats : x.d.requested_formats[k].vcodec = "avc1"}

InitConc == InitSlots(Slots)

NextConc ==
  \E i \in Slots :
    \/ Dispatch(i, {"tiktok", "resolve"})
    \/ TikTokPost(i, ConcTikTokReplies)
    \/ TikTokHandle(i)
    \/ ResolveImport(i)
    \/ ResolveExtract(i, ConcExtractResults)
    \/ ResolveSelect(i)
    \/ Finish(i)

SpecConc == InitConc /\ [][NextConc]_vars

(***************************************************************************)
(* The claims.                                                             *)
(***************************************************************************)
\* Slot i holds the finished response of endpoint e.
Done(i, e) == pc[i] = "done" /\ endpoint[i] = e

\* A field that holds a non-empty value.
Populated(v) == v # ABSENT /\ v # NONE /\ v # ""

\* A failure that carries a structured {detail} message.
Structured(o) == o.kind = "http_error" /\ o.detail # NONE

\* The upstream replied 200 with a JSON object.
Replied200(r) == r.transport = "ok" /\ r.status_code = 200

Least(S) == CHOOSE k \in S : \A m \in S : k <= m

Greatest(S) == CHOOSE k \in S : \A m \in S : m <= k

\* C1: for an upstream reply with HTTP 200, code 0 and a data object, the
\* response carries hdplay as download_url when hdplay is populated, play when
\* only play is populated, and the call fails with 404 when neither is.
C1_DownloadUrlPreference ==
  \A i \in DOMAIN pc :
    (/\ Done(i, "tiktok")
     /\ Replied200(resp[i])
     /\ resp[i].body.shape = "obj"
     /\ resp[i].body.code = "0"
     /\ resp[i].body.data.shape = "obj")
    => LET d == resp[i].body.data
           o == outcome[i]
       IN /\ Populated(d.hdplay) => o.kind = "ok" /\ o.body.download_url = d.hdplay
          /\ ~Populated(d.hdplay) /\ Populated(d.play)
               => o.kind = "ok" /\ o.body.download_url = d.play
          /\ ~Populated(d.hdplay) /\ ~Populated(d.play)
               => o.kind = "http_error" /\ o.status = 404

\* C2: when the upstream answers 200 and the JSON payload is null or empty, or
\* its code is not 0, or its data object is absent, the call fails with 400
\* and the detail is the upstream msg when present, else "Failed to resolve
\* video".
C2_EnvelopeRejected ==
  \A i \in DOMAIN pc :
    (/\ Done(i, "tiktok")
     /\ Replied200(resp[i])
     /\ \/ resp[i].body.shape \in {"null", "emptyobj"}
        \/ /\ resp[i].body.shape = "obj"
           /\ resp[i].body.code # "0" \/ resp[i].body.data.shape \in {"absent", "null"})
    => /\ outcome[i].kind = "http_error"
       /\ outcome[i].status = 400
       /\ outcome[i].detail = IF resp[i].body.msg # ABSENT THEN resp[i].body.msg
                              ELSE "Failed to resolve video"

\* C3: a transport failure of the POST (the timeout included) yields 502 with
\* the error text in the detail, a non-200 upstream status yields a failure
\* with that same status and the detail "Resolver error", and in neither case
\* is the upstream body parsed.
C3_TransportAndStatusFailures ==
  \A i \in DOMAIN pc :
    Done(i, "tiktok")
    => /\ resp[i].transport = "error"
            => /\ outcome[i].kind = "http_error"
               /\ outcome[i].status = 502
               /\ outcome[i].detail = "Resolver network error: " \o resp[i].error
               /\ ~parsed[i]
       /\ resp[i].transport = "ok" /\ resp[i].status_code # 200
            => /\ outcome[i].kind = "http_error"
               /\ outcome[i].status = resp[i].status_code
               /\ outcome[i].detail = "Resolver error"
               /\ ~parsed[i]

\* C3 witness: the POST timed out and the request ended with 502.
C3_Witness ==
  \E i \in DOMAIN pc :
    /\ Done(i, "tiktok")
    /\ resp[i].error = "Read timed out. (read timeout=20)"
    /\ outcome[i].status = 502
    /\ calls[i] = 1

\* C4: every failing outcome of POST /api/tiktok/metadata has status 400, 404
\* or 502 and carries a structured {detail} message.
C4_TikTokFailureShape ==
  \A i \in DOMAIN pc :
    Done(i, "tiktok") /\ outcome[i].kind # "ok"
    => Structured(outcome[i]) /\ outcome[i].status \in {400, 404, 502}

\* The descriptor resolve_generic selects from, when extract_info returned one.
HasDescriptor(x) == x.result = "info" /\ x.entries # "null_first"

\* C5: with a non-empty requested_formats list, download_url is the url of the
\* first entry whose vcodec is not "none" and which has a url; if no entry
\* qualifies it is the first entry's url when present; top-level url and
\* formats do not matter.
C5_RequestedFormatsFirst ==
  \A i \in DOMAIN pc :
    (/\ Done(i, "resolve")
     /\ HasDescriptor(info[i])
     /\ info[i].d.requested_formats # <<>>)
    => LET rf == info[i].d.requested_formats
           Q == {k \in DOMAIN rf : rf[k].vcodec # "none" /\ Populated(rf[k].url)}
           o == outcome[i]
       IN /\ Q # {} => o.kind = "ok" /\ o.body.download_url = rf[Least(Q)].url
          /\ Q = {} /\ Populated(rf[1].url)
               => o.kind = "ok" /\ o.body.download_url = rf[1].url

\* C6: with no requested_formats and no top-level url, download_url is the url
\* of the last formats entry with ext "mp4" and a url; without such an entry
\* it is the url of the last entry; the call fails with 404 exactly when no
\* step yields a url.
C6_FormatsFallback ==
  \A i \in DOMAIN pc :
    (/\ Done(i, "resolve")
     /\ HasDescriptor(info[i])
     /\ info[i].d.requested_formats = <<>>
     /\ ~Populated(info[i].d.url))
    => LET fs == info[i].d.formats
           M == {k \in DOMAIN fs : fs[k].ext = "mp4" /\ Populated(fs[k].url)}
           none == M = {} /\ (fs = <<>> \/ ~Populated(fs[Len(fs)].url))
           o == outcome[i]
       IN /\ M # {} => o.kind = "ok" /\ o.body.download_url = fs[Greatest(M)].url
          /\ M = {} /\ ~none => o.kind = "ok" /\ o.body.download_url = fs[Len(fs)].url
          /\ none <=> (o.kind = "http_error" /\ o.status = 404)

\* C7: every failing outcome of POST /api/resolve has status 400, 404 or 500
\* and a structured {detail}: 500 when the library is unavailable, 400 with
\* the error text for an extraction failure, 500 with a wrapped message for
\* any other exception, whatever descriptor the library returns.
C7_ResolveFailureShape ==
  \A i \in DOMAIN pc :
    Done(i, "resolve") /\ outcome[i].kind # "ok"
    => /\ Structured(outcome[i])
       /\ outcome[i].status \in {400, 404, 500}
       /\ calls[i] = 0 => outcome[i].status = 500
       /\ info[i].result = "download_error"
            => /\ outcome[i].status = 400
               /\ outcome[i].detail = "Failed to extract: " \o info[i].error
       /\ info[i].result = "exception"
            => /\ outcome[i].status = 500
               /\ outcome[i].detail = "Unexpected error: " \o info[i].error

\* C8: GET /test always answers 200 with the fields backend, database,
\* database_url and connection_status, and lists at most 10 collections,
\* whatever the database module does.
C8_DiagnosticsNeverFails ==
  \A i \in DOMAIN pc :
    Done(i, "test")
    => /\ outcome[i].kind = "ok"
       /\ outcome[i].status = 200
       /\ {"backend", "database", "database_url", "connection_status"}
            \subseteq DOMAIN outcome[i].body
       /\ Len(outcome[i].body.collections) <= 10
       /\ \A k \in DOMAIN outcome[i].body.collections :
            outcome[i].body.collections[k] = db[i].collections[k]

\* C8 witness: the database holds more than 10 collections and 10 are listed.
C8_Witness ==
  \E i \in DOMAIN pc :
    /\ Done(i, "test")
    /\ db[i].list = "ok"
    /\ Len(db[i].collections) > 10
    /\ Len(outcome[i].body.collections) = 10

\* The external call of slot i that this step issued has failed.
CallFailed(i) ==
  \/ endpoint[i] = "tiktok" /\ resp'[i].transport = "error"
  \/ endpoint[i] = "resolve" /\ info'[i].result \in {"download_error", "exception"}

\* C9: a handler issues its external call at most once per request, and a
\* call that fails ends the request with the failure response at once.
C9_SingleAttempt ==
  [][\A i \in DOMAIN pc :
       calls'[i] > calls[i]
       => /\ calls[i] = 0
          /\ calls'[i] = 1
          /\ CallFailed(i) => pc'[i] = "done" /\ outcome'[i].kind = "http_error"]_vars

\* C9 witness: one call was made, it failed, and the request is finished.
C9_Witness ==
  \E i \in DOMAIN pc :
    /\ pc[i] = "done"
    /\ calls[i] = 1
    /\ \/ endpoint[i] = "tiktok" /\ resp[i].transport = "error"
       \/ endpoint[i] = "resolve" /\ info[i].result = "download_error"
    /\ outcome[i].kind = "http_error"

\* The response of a request that runs alone, from what its own call returned.
AloneOutcome(e, n, r, x) ==
  IF e = "tiktok"
  THEN IF r.transport = "error" THEN TikTokNetworkError(r) ELSE TikTokHandleResponse(r)
  ELSE IF n = 0 THEN ImportFailure("No module named 'yt_dlp'")
  ELSE IF x.result \in {"download_error", "exception"} THEN ExtractFailure(x)
  ELSE ResolveHandleInfo(x)

\* C10: under any interleaving of concurrent requests, the response of each
\* request is the one it would get alone from the reply to its own call.
C10_RequestIsolation ==
  \A i \in DOMAIN pc :
    pc[i] = "done" => outcome[i] = AloneOutcome(endpoint[i], calls[i], resp[i], info[i])

\* C10 witness: a request finished while another one, which got a different
\* reply, was still between its call and its response.
C10_Witness ==
  \E i, j \in DOMAIN pc :
    /\ i # j
    /\ Done(i, "tiktok")
    /\ outcome[i].kind = "ok"
    /\ pc[j] = "posted"
    /\ resp[j] # resp[i]

====
